---------------------------- MODULE Spec2Model ----------------------------
(***************************************************************************)
(* State-machine model of src/bin/tunnel.rs (the `sstunnel` binary):       *)
(* command-line matching, configuration loading, option reading, the       *)
(* launch checks, and the race of the tunnel server against the shutdown   *)
(* signal.                                                                 *)
(*                                                                         *)
(* Conventions.  An Option<T> is a sequence of length at most one: <<>> is *)
(* None and <<v>> is Some(v).  A raw command-line string that has to be    *)
(* parsed is a tuple of its lexical pieces, e.g. <<"127.0.0.1",":","1080">>*)
(* so that parsing is a computation that can fail.                         *)
(***************************************************************************)
EXTENDS Naturals, Sequences, FiniteSets, TLC

None == <<>>
Some(v) == <<v>>

(* largest number of server entries a configuration file carries *)
MaxFileServers == 1

(***************************************************************************)
(* Raw inputs                                                              *)
(***************************************************************************)
BindStr == <<"127.0.0.1", ":", "1080">>
ServerStr == <<"1.2.3.4", ":", "8388">>
ForwardStr == <<"example.com", ":", "80">>
NoPortStr == <<"localhost">>
UrlStr == <<"ss", "://", "aes-256-gcm", ":", "secret", "@", "5.6.7.8", ":", "8388">>
BadUrlStr == <<"http", "://", "5.6.7.8">>
NumStr == <<"6", "4">>
NotNumStr == <<"a", "b">>

GoodPath == "tunnel.json"
BadPath == "broken.json"

Modes == {"TcpOnly", "UdpOnly", "TcpAndUdp"}

(***************************************************************************)
(* Source parsers (library code of the shadowsocks crate and of std)       *)
(***************************************************************************)
Ok(v) == [ok |-> TRUE, val |-> v]
Err(e) == [ok |-> FALSE, val |-> e]

Digits == ("0" :> 0) @@ ("1" :> 1) @@ ("2" :> 2) @@ ("3" :> 3) @@ ("4" :> 4) @@
          ("5" :> 5) @@ ("6" :> 6) @@ ("7" :> 7) @@ ("8" :> 8) @@ ("9" :> 9)

RECURSIVE DigitsValue(_)
DigitsValue(s) ==
    IF s = <<>> THEN 0
    ELSE 10 * DigitsValue(SubSeq(s, 1, Len(s) - 1)) + Digits[s[Len(s)]]

(* str::parse::<u64> on a string given as its characters *)
parse_u64(s) ==
    IF s # <<>> /\ \A i \in 1..Len(s) : s[i] \in DOMAIN Digits
    THEN Ok(DigitsValue(s))
    ELSE Err("invalid digit")

Ports == ("1080" :> 1080) @@ ("8388" :> 8388) @@ ("80" :> 80)

(* ServerAddr::from_str / Address::from_str: host ":" port *)
parse_addr(s) ==
    IF Len(s) = 3 /\ s[2] = ":" /\ s[3] \in DOMAIN Ports
    THEN Ok([host |-> s[1], port |-> Ports[s[3]]])
    ELSE Err("invalid address")

Ciphers == ("aes-256-gcm" :> "Aes256Gcm") @@ ("chacha20-ietf-poly1305" :> "ChaCha20IetfPoly1305")

(* CipherType::from_str *)
parse_cipher(s) ==
    IF s \in DOMAIN Ciphers THEN Ok(Ciphers[s]) ELSE Err("unknown cipher")

(* ServerConfig::new(addr, password, method, None, None) *)
ServerConfig_new(addr, password, method) ==
    [addr |-> addr, password |-> password, method |-> method, plugin |-> None]

(* ServerConfig::from_str: a SIP002 URL  ss://method:password@host:port *)
parse_url(s) ==
    IF /\ Len(s) = 9
       /\ s[1] = "ss" /\ s[2] = "://" /\ s[4] = ":" /\ s[6] = "@"
       /\ parse_cipher(s[3]).ok
       /\ parse_addr(SubSeq(s, 7, 9)).ok
    THEN Ok(ServerConfig_new(parse_addr(SubSeq(s, 7, 9)).val, s[5], parse_cipher(s[3]).val))
    ELSE Err("invalid url")

(* Mode::enable_tcp *)
enable_tcp(mode) == mode \in {"TcpOnly", "TcpAndUdp"}

(* Config::new(ConfigType::TunnelLocal) *)
Config_new ==
    [local_addr |-> None, server |-> <<>>, forward |-> None, mode |-> "TcpAndUdp",
     no_delay |-> FALSE, nofile |-> None, ipv6_first |-> FALSE]

FileServer == ServerConfig_new([host |-> "9.9.9.9", port |-> 443], "filepw", "ChaCha20IetfPoly1305")
FileLocal == [host |-> "0.0.0.0", port |-> 1081]
FileForward == [host |-> "file.example", port |-> 53]

SeqsUpTo(S, n) == UNION {[1..k -> S] : k \in 0..n}

(* the configurations a readable configuration file can hold *)
FileConfigs ==
    [local_addr : {None, Some(FileLocal)},
     server : SeqsUpTo({FileServer}, MaxFileServers),
     forward : {None, Some(FileForward)},
     mode : Modes,
     no_delay : BOOLEAN,
     nofile : {None, Some(512)},
     ipv6_first : BOOLEAN]

(* Config::load_from_file(cpath, ConfigType::TunnelLocal): the possible results *)
load_from_file(cpath) ==
    IF cpath = GoodPath THEN {Ok(c) : c \in FileConfigs} ELSE {Err("load error")}

(***************************************************************************)
(* The command line                                                        *)
(***************************************************************************)
(* the arguments the application declares (clap_app! plus the .arg call) *)
DeclaredArgs ==
    {"UDP_ONLY", "TCP_AND_UDP", "CONFIG", "LOCAL_ADDR", "SERVER_ADDR", "FORWARD_ADDR",
     "PASSWORD", "PLUGIN", "PLUGIN_OPT", "URL", "NO_DELAY", "NOFILE", "IPV6_FIRST"}

(* what a user can type; ENCRYPT_METHOD stands for an attempt to pass      *)
(* -m/--encrypt-method                                                     *)
Invocations ==
    [CONFIG : {None, Some(GoodPath), Some(BadPath)},
     LOCAL_ADDR : {None, Some(BindStr), Some(NoPortStr)},
     SERVER_ADDR : {None, Some(ServerStr), Some(NoPortStr)},
     FORWARD_ADDR : {None, Some(ForwardStr), Some(NoPortStr)},
     PASSWORD : {None, Some("secret")},
     ENCRYPT_METHOD : {None, Some("aes-256-gcm"), Some("rot13")},
     PLUGIN : {None, Some("obfs-local")},
     PLUGIN_OPT : {None, Some("obfs=http")},
     URL : {None, Some(UrlStr), Some(BadUrlStr)},
     NOFILE : {None, Some(NumStr), Some(NotNumStr)},
     UDP_ONLY : BOOLEAN,
     TCP_AND_UDP : BOOLEAN,
     NO_DELAY : BOOLEAN,
     IPV6_FIRST : BOOLEAN]

Flags == {"UDP_ONLY", "TCP_AND_UDP", "NO_DELAY", "IPV6_FIRST"}

(* ArgMatches::value_of: None for an argument the application never declared *)
value_of(m, name) == IF name \in DeclaredArgs THEN m[name] ELSE None

(* ArgMatches::is_present *)
is_present(m, name) ==
    /\ name \in DeclaredArgs
    /\ IF name \in Flags THEN m[name] ELSE m[name] # None

(* validator::validate_server_addr, validate_address, validate_server_url *)
validate_server_addr(v) == parse_addr(v).ok
validate_address(v) == parse_addr(v).ok
validate_server_url(v) == parse_url(v).ok

(* the value validators attached to LOCAL_ADDR, SERVER_ADDR, FORWARD_ADDR, URL *)
ValidatorsAccept(a) ==
    /\ a.LOCAL_ADDR # None => validate_server_addr(a.LOCAL_ADDR[1])
    /\ a.SERVER_ADDR # None => validate_server_addr(a.SERVER_ADDR[1])
    /\ a.FORWARD_ADDR # None => validate_address(a.FORWARD_ADDR[1])
    /\ a.URL # None => validate_server_url(a.URL[1])

(* requires[..]: a required name is satisfied only by a matched argument.  *)
(* ENCRYPT_METHOD is named by SERVER_ADDR and PASSWORD but is not among    *)
(* the declared arguments, so it is never matched; were the requirement    *)
(* let through, read_server would panic on the missing value (line 84).    *)
RequiresHold(a) ==
    /\ is_present(a, "SERVER_ADDR") => is_present(a, "PASSWORD") /\ is_present(a, "ENCRYPT_METHOD")
    /\ is_present(a, "PASSWORD") => is_present(a, "SERVER_ADDR") /\ is_present(a, "ENCRYPT_METHOD")
    /\ is_present(a, "PLUGIN") => is_present(a, "SERVER_ADDR")
    /\ is_present(a, "PLUGIN_OPT") => is_present(a, "PLUGIN")

(* +required on FORWARD_ADDR and on the groups SERVER_CONFIG, LOCAL_CONFIG *)
RequiredPresent_forward_optional(a) ==
    /\ is_present(a, "CONFIG") \/ is_present(a, "SERVER_ADDR") \/ is_present(a, "URL")
    /\ is_present(a, "CONFIG") \/ is_present(a, "LOCAL_ADDR")

RequiredPresent(a) ==
    /\ is_present(a, "FORWARD_ADDR")
    /\ is_present(a, "CONFIG") \/ is_present(a, "SERVER_ADDR") \/ is_present(a, "URL")
    /\ is_present(a, "CONFIG") \/ is_present(a, "LOCAL_ADDR")

(* App::get_matches succeeds; otherwise clap prints the error and the usage and exits *)
ClapAccepts(a) ==
    /\ \A n \in DOMAIN a : (n \notin DeclaredArgs) => a[n] = None
    /\ ~(a.UDP_ONLY /\ a.TCP_AND_UDP)
    /\ ValidatorsAccept(a)
    /\ RequiresHold(a)
    /\ RequiredPresent(a)


(***************************************************************************)
(* Reading the options into the configuration (main, lines 80-140).  A     *)
(* reading step maps a result [cfg, panic] to the next one; once an        *)
(* `expect` has panicked, nothing further is read.                         *)
(***************************************************************************)
Reading(cfg) == [cfg |-> cfg, panic |-> None]
Panic(r, msg) == [r EXCEPT !.panic = Some(msg)]

(* lines 80-101: the discrete server entry *)
read_server(r, m) ==
    IF r.panic # None \/ value_of(m, "SERVER_ADDR") = None THEN r
    ELSE IF value_of(m, "PASSWORD") = None THEN Panic(r, "password")
    ELSE IF value_of(m, "ENCRYPT_METHOD") = None THEN Panic(r, "encrypt-method")
    ELSE IF ~parse_cipher(value_of(m, "ENCRYPT_METHOD")[1]).ok THEN Panic(r, "encryption method")
    ELSE IF ~parse_addr(value_of(m, "SERVER_ADDR")[1]).ok THEN Panic(r, "server-addr")
    ELSE LET sc == ServerConfig_new(parse_addr(value_of(m, "SERVER_ADDR")[1]).val,
                                    value_of(m, "PASSWORD")[1],
                                    parse_cipher(value_of(m, "ENCRYPT_METHOD")[1]).val)
             withPlugin ==
                 IF value_of(m, "PLUGIN") # None
                 THEN [sc EXCEPT !.plugin = Some([plugin |-> value_of(m, "PLUGIN")[1],
                                                  plugin_opt |-> value_of(m, "PLUGIN_OPT")])]
                 ELSE sc
         IN  [r EXCEPT !.cfg.server = Append(@, withPlugin)]

(* lines 103-106: the server URL *)
read_url(r, m) ==
    IF r.panic # None \/ value_of(m, "URL") = None THEN r
    ELSE IF ~parse_url(value_of(m, "URL")[1]).ok THEN Panic(r, "parse url")
    ELSE [r EXCEPT !.cfg.server = Append(@, parse_url(value_of(m, "URL")[1]).val)]

(* lines 108-111: the local bind address *)
read_local_addr(r, m) ==
    IF r.panic # None \/ value_of(m, "LOCAL_ADDR") = None THEN r
    ELSE IF ~parse_addr(value_of(m, "LOCAL_ADDR")[1]).ok THEN Panic(r, "local bind address")
    ELSE [r EXCEPT !.cfg.local_addr = Some(parse_addr(value_of(m, "LOCAL_ADDR")[1]).val)]

(* lines 113-116: the forward address *)
read_forward(r, m) ==
    IF r.panic # None \/ value_of(m, "FORWARD_ADDR") = None THEN r
    ELSE IF ~parse_addr(value_of(m, "FORWARD_ADDR")[1]).ok THEN Panic(r, "forward to address")
    ELSE [r EXCEPT !.cfg.forward = Some(parse_addr(value_of(m, "FORWARD_ADDR")[1]).val)]

(* lines 118-128: the mode flags *)
resolve_mode_udp_only_overwrites(mode, udp_only, tcp_and_udp) ==
    IF tcp_and_udp THEN "TcpAndUdp" ELSE IF udp_only THEN "UdpOnly" ELSE mode

resolve_mode(mode, udp_only, tcp_and_udp) ==
    LET afterUdp == IF udp_only
                    THEN (IF enable_tcp(mode) THEN "TcpAndUdp" ELSE "UdpOnly")
                    ELSE mode
    IN  IF tcp_and_udp THEN "TcpAndUdp" ELSE afterUdp

read_mode(r, m) ==
    IF r.panic # None THEN r
    ELSE [r EXCEPT !.cfg.mode = resolve_mode(@, is_present(m, "UDP_ONLY"), is_present(m, "TCP_AND_UDP"))]

(* lines 130-132 and 138-140: the boolean toggles *)
set_if_present_assigns(base, present) == present

set_if_present(base, present) == IF present THEN TRUE ELSE base

read_toggles(r, m) ==
    IF r.panic # None THEN r
    ELSE [r EXCEPT !.cfg.no_delay = set_if_present(@, is_present(m, "NO_DELAY")),
                   !.cfg.ipv6_first = set_if_present(@, is_present(m, "IPV6_FIRST"))]

(* lines 134-136: the descriptor limit *)
read_nofile_lenient(r, m) ==
    IF r.panic # None \/ value_of(m, "NOFILE") = None THEN r
    ELSE IF ~parse_u64(value_of(m, "NOFILE")[1]).ok THEN r
    ELSE [r EXCEPT !.cfg.nofile = Some(parse_u64(value_of(m, "NOFILE")[1]).val)]

read_nofile(r, m) ==
    IF r.panic # None \/ value_of(m, "NOFILE") = None THEN r
    ELSE IF ~parse_u64(value_of(m, "NOFILE")[1]).ok
         THEN Panic(r, "an unsigned integer for nofile")
    ELSE [r EXCEPT !.cfg.nofile = Some(parse_u64(value_of(m, "NOFILE")[1]).val)]

(* lines 80-140 in program order; the toggles commute with the limit *)
read_options(cfg, m) ==
    read_toggles(
      read_nofile(
        read_mode(
          read_forward(
            read_local_addr(
              read_url(
                read_server(Reading(cfg), m), m), m), m), m), m), m)

(***************************************************************************)
(* The launch checks (main, lines 144-162)                                 *)
(***************************************************************************)
check_config_servers_first(cfg) ==
    IF cfg.server = <<>> THEN "missing proxy servers"
    ELSE IF cfg.local_addr = None THEN "missing local_address"
    ELSE "ok"

check_config(cfg) ==
    IF cfg.local_addr = None THEN "missing local_address"
    ELSE IF cfg.server = <<>> THEN "missing proxy servers"
    ELSE "ok"

(***************************************************************************)
(* The race (main, lines 182-189)                                          *)
(***************************************************************************)
(* future::select(a, b): polls a, and polls b only when a is pending *)
select_signal_first(server, signal) ==
    IF signal THEN "Right" ELSE IF server # "Pending" THEN "Left" ELSE "Pending"

select(server, signal) ==
    IF server # "Pending" THEN "Left" ELSE IF signal THEN "Right" ELSE "Pending"

(* the match arms: how the process ends and which server result is reported *)
match_either_ok_is_clean(either, server) ==
    IF either = "Left" /\ server = "Err"
    THEN [exit |-> "panic", diag |-> "server exited unexpectly with", reported |-> Some(server)]
    ELSE [exit |-> "return", diag |-> "none", reported |-> None]

match_either_always_fatal(either, server) ==
    [exit |-> "panic", diag |-> "server exited unexpectly", reported |-> Some(server)]

match_either(either, server) ==
    IF either = "Left" /\ server = "Ok"
    THEN [exit |-> "panic", diag |-> "server exited unexpectly", reported |-> Some(server)]
    ELSE IF either = "Left"
    THEN [exit |-> "panic", diag |-> "server exited unexpectly with", reported |-> Some(server)]
    ELSE [exit |-> "return", diag |-> "none", reported |-> None]

(***************************************************************************)
(* State                                                                   *)
(***************************************************************************)
VARIABLES
    pc,            \* position of main
    argv,          \* the command line
    base,          \* the configuration as loaded or defaulted (line 78)
    config,        \* the configuration being resolved
    done_reading,  \* line 142 has been reached
    checked,       \* the launch checks have been evaluated
    runtime,       \* the tokio Runtime exists
    server_task,   \* the run_local future exists
    signal_task,   \* the signal-monitor future exists
    starts,        \* how many times run_local has been called
    server,        \* "Pending", or the result the server future is ready with
    signal,        \* the shutdown signal has been observed by the monitor
    first,         \* which of the two became ready first
    woken,         \* the block_on task is scheduled for a poll
    exit,          \* how the process ended
    diag,          \* the diagnostic printed at the end
    usage,         \* the usage summary was printed
    reported       \* the server result carried by the final diagnostic

vars == <<pc, argv, base, config, done_reading, checked, runtime, server_task, signal_task,
          starts, server, signal, first, woken, exit, diag, usage, reported>>

setup == <<done_reading, checked, runtime, server_task, signal_task, starts>>
race == <<server, signal, first, woken>>
ending == <<exit, diag, usage, reported>>

NoArgs ==
    [CONFIG |-> None, LOCAL_ADDR |-> None, SERVER_ADDR |-> None, FORWARD_ADDR |-> None,
     PASSWORD |-> None, ENCRYPT_METHOD |-> None, PLUGIN |-> None, PLUGIN_OPT |-> None,
     URL |-> None, NOFILE |-> None, UDP_ONLY |-> FALSE, TCP_AND_UDP |-> FALSE,
     NO_DELAY |-> FALSE, IPV6_FIRST |-> FALSE]

Init ==
    /\ pc = "start"
    /\ argv = NoArgs
    /\ base = Config_new
    /\ config = Config_new
    /\ done_reading = FALSE
    /\ checked = FALSE
    /\ runtime = FALSE
    /\ server_task = FALSE
    /\ signal_task = FALSE
    /\ starts = 0
    /\ server = "Pending"
    /\ signal = FALSE
    /\ first = "none"
    /\ woken = FALSE
    /\ exit = "none"
    /\ diag = "none"
    /\ usage = FALSE
    /\ reported = None

(* lines 31-62: the command line is matched, or clap reports the error *)
GetMatches ==
    /\ pc = "start"
    /\ \E a \in Invocations :
        /\ argv' = a
        /\ IF ClapAccepts(a)
           THEN /\ pc' = "matched"
                /\ UNCHANGED ending
           ELSE /\ pc' = "exited"
                /\ exit' = "clap_error"
                /\ diag' = "argument error"
                /\ usage' = TRUE
                /\ UNCHANGED reported
    /\ UNCHANGED <<base, config, setup, race>>

(* lines 69-78: the base configuration *)
LoadConfig ==
    /\ pc = "matched"
    /\ IF value_of(argv, "CONFIG") = None
       THEN /\ base' = Config_new
            /\ config' = Config_new
            /\ pc' = "loaded"
            /\ UNCHANGED ending
       ELSE \E res \in load_from_file(value_of(argv, "CONFIG")[1]) :
              IF res.ok
              THEN /\ base' = res.val
                   /\ config' = res.val
                   /\ pc' = "loaded"
                   /\ UNCHANGED ending
              ELSE /\ pc' = "exited"
                   /\ exit' = "return"
                   /\ diag' = "load error"
                   /\ UNCHANGED <<base, config, usage, reported>>
    /\ UNCHANGED <<argv, setup, race>>

(* lines 80-142: the options are read into the configuration *)
ReadOptions ==
    /\ pc = "loaded"
    /\ LET r == read_options(config, argv)
       IN  IF r.panic = None
           THEN /\ config' = r.cfg
                /\ done_reading' = TRUE
                /\ pc' = "read"
                /\ UNCHANGED ending
           ELSE /\ pc' = "exited"
                /\ exit' = "panic"
                /\ diag' = r.panic[1]
                /\ UNCHANGED <<config, done_reading, usage, reported>>
    /\ UNCHANGED <<argv, base, checked, runtime, server_task, signal_task, starts, race>>

(* lines 144-164: the launch checks *)
CheckConfig ==
    /\ pc = "read"
    /\ checked' = TRUE
    /\ IF check_config(config) = "ok"
       THEN /\ pc' = "checked"
            /\ UNCHANGED ending
       ELSE /\ pc' = "exited"
            /\ exit' = "return"
            /\ diag' = check_config(config)
            /\ usage' = TRUE
            /\ UNCHANGED reported
    /\ UNCHANGED <<argv, base, config, done_reading, runtime, server_task, signal_task, starts, race>>

(* lines 166-173: the runtime is built *)
BuildRuntime ==
    /\ pc = "checked"
    /\ runtime' = TRUE
    /\ pc' = "built"
    /\ UNCHANGED <<argv, base, config, done_reading, checked, server_task, signal_task, starts,
                   race, ending>>

(* lines 175-180: block_on is entered and the two futures are created *)
BlockOn ==
    /\ pc = "built"
    /\ signal_task' = TRUE
    /\ server_task' = TRUE
    /\ starts' = starts + 1
    /\ woken' = TRUE
    /\ pc' = "racing"
    /\ UNCHANGED <<argv, base, config, done_reading, checked, runtime, server, signal, first,
                   ending>>

(* the server future becomes ready with a result; a result produced        *)
(* during the first poll is one that is ready before that poll             *)
ServerResolves ==
    /\ pc = "racing"
    /\ server = "Pending"
    /\ \E res \in {"Ok", "Err"} : server' = res
    /\ first' = IF first = "none" THEN "server" ELSE first
    /\ woken' = TRUE
    /\ UNCHANGED <<pc, argv, base, config, setup, signal, ending>>

(* the signal monitor observes a termination request *)
SignalArrives ==
    /\ pc = "racing"
    /\ ~signal
    /\ signal' = TRUE
    /\ first' = IF first = "none" THEN "signal" ELSE first
    /\ woken' = TRUE
    /\ UNCHANGED <<pc, argv, base, config, setup, server, ending>>

(* lines 182-189: one poll of the select, and the match on its result *)
PollSelect ==
    /\ pc = "racing"
    /\ woken
    /\ LET either == select(server, signal)
       IN  IF either = "Pending"
           THEN /\ woken' = FALSE
                /\ UNCHANGED <<pc, ending>>
           ELSE /\ pc' = "exited"
                /\ exit' = match_either(either, server).exit
                /\ diag' = match_either(either, server).diag
                /\ reported' = match_either(either, server).reported
                /\ UNCHANGED <<woken, usage>>
    /\ UNCHANGED <<argv, base, config, setup, server, signal, first>>

Next ==
    \/ GetMatches
    \/ LoadConfig
    \/ ReadOptions
    \/ CheckConfig
    \/ BuildRuntime
    \/ BlockOn
    \/ ServerResolves
    \/ SignalArrives
    \/ PollSelect

Spec == Init /\ [][Next]_vars

TypeOK ==
    /\ pc \in {"start", "matched", "loaded", "read", "checked", "built", "racing", "exited"}
    /\ argv \in Invocations
    /\ config.mode \in Modes
    /\ starts \in 0..1
    /\ server \in {"Pending", "Ok", "Err"}
    /\ exit \in {"none", "clap_error", "return", "panic"}


(***************************************************************************)
(* Vocabulary of the properties                                            *)
(***************************************************************************)
(* main has not yet left the reading of its inputs *)
StillReading == pc \in {"start", "matched", "loaded"}

(* the process ended inside the race of lines 182-189 *)
RaceEnded == pc = "exited" /\ server_task

(* some configuration source of the invocation cannot be parsed *)
ParseFailure(a) ==
    \/ a.CONFIG # None /\ \A res \in load_from_file(a.CONFIG[1]) : ~res.ok
    \/ a.SERVER_ADDR # None /\ ~parse_addr(a.SERVER_ADDR[1]).ok
    \/ a.ENCRYPT_METHOD # None /\ ~parse_cipher(a.ENCRYPT_METHOD[1]).ok
    \/ a.URL # None /\ ~parse_url(a.URL[1]).ok
    \/ a.LOCAL_ADDR # None /\ ~parse_addr(a.LOCAL_ADDR[1]).ok
    \/ a.FORWARD_ADDR # None /\ ~parse_addr(a.FORWARD_ADDR[1]).ok
    \/ a.NOFILE # None /\ ~parse_u64(a.NOFILE[1]).ok

(* the invocation follows the documented command-line surface *)
WellFormedInvocation(a) ==
    /\ ~ParseFailure(a)
    /\ a.FORWARD_ADDR # None
    /\ a.CONFIG # None \/ a.LOCAL_ADDR # None
    /\ a.CONFIG # None \/ a.SERVER_ADDR # None \/ a.URL # None
    /\ ~(a.UDP_ONLY /\ a.TCP_AND_UDP)
    /\ (a.SERVER_ADDR # None) = (a.PASSWORD # None)
    /\ (a.SERVER_ADDR # None) = (a.ENCRYPT_METHOD # None)
    /\ a.PLUGIN # None => a.SERVER_ADDR # None
    /\ a.PLUGIN_OPT # None => a.PLUGIN # None

(* the three things a launch needs *)
LaunchReady(cfg) == cfg.local_addr # None /\ cfg.server # <<>> /\ cfg.forward # None

(* the first missing item in the order bind address, servers, forward target *)
FirstMissing(cfg) ==
    IF cfg.local_addr = None THEN "missing local_address"
    ELSE IF cfg.server = <<>> THEN "missing proxy servers"
    ELSE "missing forward address"

IsPrefix(s, t) == Len(s) <= Len(t) /\ SubSeq(t, 1, Len(s)) = s

Transports(mode) ==
    IF mode = "TcpOnly" THEN {"tcp"} ELSE IF mode = "UdpOnly" THEN {"udp"} ELSE {"tcp", "udp"}

(***************************************************************************)
(* C1                                                                      *)
(***************************************************************************)
(* C1 as stated: whenever the shutdown signal became ready before the      *)
(* server operation, the process ends normally and no server result is     *)
(* reported.                                                               *)
C1_SignalFirstIsClean ==
    (RaceEnded /\ first = "signal") => (exit = "return" /\ reported = None)

(* C1 amended: when the shutdown signal became ready first and the server  *)
(* operation is still pending at the poll that observes it, the process    *)
(* ends normally, silently, and no server result is reported.              *)
C1_SignalWinsWhileServerPending ==
    (RaceEnded /\ first = "signal" /\ server = "Pending")
        => (exit = "return" /\ diag = "none" /\ reported = None)

C1_Witness ==
    RaceEnded /\ first = "signal" /\ server = "Pending" /\ exit = "return"

(***************************************************************************)
(* C2                                                                      *)
(***************************************************************************)
(* C2: when the server operation became ready before any shutdown signal,  *)
(* the process ends by a panic whose diagnostic carries the server's       *)
(* result, for success and for error alike; run_local is called at most    *)
(* once.                                                                   *)
C2_ServerFirstIsFatal ==
    /\ starts <= 1
    /\ (RaceEnded /\ first = "server")
          => (exit = "panic" /\ diag # "none" /\ reported = Some(server))

C2_Witness ==
    RaceEnded /\ first = "server" /\ server = "Ok" /\ exit = "panic" /\ starts = 1

(***************************************************************************)
(* C3                                                                      *)
(***************************************************************************)
(* C3: once the launch checks have run on a configuration that lacks a     *)
(* bind address, a server or a forward target, the process has returned    *)
(* with the usage summary and the diagnostic of the first missing item.    *)
C3_FirstMissingIsNamed ==
    (checked /\ ~LaunchReady(config))
        => (pc = "exited" /\ exit = "return" /\ usage /\ diag = FirstMissing(config))

C3_Witness ==
    /\ checked
    /\ config.local_addr = None
    /\ config.server = <<>>
    /\ diag = "missing local_address"

(***************************************************************************)
(* C4                                                                      *)
(***************************************************************************)
(* C4: whenever the runtime, the server future or the signal future        *)
(* exists, the configuration has a bind address, a server and a forward    *)
(* target; a resolved configuration that lacks one of them, and an         *)
(* invocation without a forward address, never get past the checks.        *)
C4_LaunchGating ==
    /\ (runtime \/ server_task \/ signal_task) => LaunchReady(config)
    /\ (done_reading /\ ~LaunchReady(config)) => pc \in {"read", "exited"}
    /\ (pc # "start" /\ argv.FORWARD_ADDR = None)
          => (pc = "exited" /\ ~runtime /\ ~server_task /\ ~signal_task)

C4_Witness ==
    /\ runtime /\ server_task /\ signal_task
    /\ base.forward = None
    /\ LaunchReady(config)

(***************************************************************************)
(* C5                                                                      *)
(***************************************************************************)
(* C5: after the options are read, a UDP-only request on a TCP-capable     *)
(* base gives TcpAndUdp, on a base without TCP gives UdpOnly; a TCP-and-   *)
(* UDP request gives TcpAndUdp; no request keeps the base mode; no         *)
(* transport of the base mode is lost.                                     *)
C5_ModeResolution ==
    done_reading =>
        /\ (argv.UDP_ONLY /\ base.mode \in {"TcpOnly", "TcpAndUdp"}) => config.mode = "TcpAndUdp"
        /\ (argv.UDP_ONLY /\ base.mode = "UdpOnly") => config.mode = "UdpOnly"
        /\ argv.TCP_AND_UDP => config.mode = "TcpAndUdp"
        /\ (~argv.UDP_ONLY /\ ~argv.TCP_AND_UDP) => config.mode = base.mode
        /\ Transports(base.mode) \subseteq Transports(config.mode)

C5_Witness ==
    done_reading /\ argv.UDP_ONLY /\ base.mode = "TcpOnly" /\ config.mode = "TcpAndUdp"

(***************************************************************************)
(* C6                                                                      *)
(***************************************************************************)
(* C6: an invocation that supplies a server address, a password and a      *)
(* cipher together with a server URL resolves to a server list that holds  *)
(* the discrete entry and, after it, the URL entry.                        *)
C6_Additivity ==
    (/\ ~StillReading
     /\ WellFormedInvocation(argv)
     /\ argv.SERVER_ADDR # None /\ argv.PASSWORD # None /\ argv.ENCRYPT_METHOD # None
     /\ argv.URL # None)
        => /\ done_reading
           /\ Len(config.server) >= 2
           /\ \E i, j \in 1..Len(config.server) :
                 /\ i < j
                 /\ config.server[i].addr = parse_addr(argv.SERVER_ADDR[1]).val
                 /\ config.server[i].password = argv.PASSWORD[1]
                 /\ config.server[j] = parse_url(argv.URL[1]).val

(***************************************************************************)
(* C7                                                                      *)
(***************************************************************************)
DiscreteTripleArgs ==
    [NoArgs EXCEPT !.SERVER_ADDR = Some(ServerStr),
                   !.PASSWORD = Some("secret"),
                   !.ENCRYPT_METHOD = Some("aes-256-gcm"),
                   !.LOCAL_ADDR = Some(BindStr),
                   !.FORWARD_ADDR = Some(ForwardStr)]

DiscreteTripleConfig ==
    [local_addr |-> Some([host |-> "127.0.0.1", port |-> 1080]),
     server |-> <<[addr |-> [host |-> "1.2.3.4", port |-> 8388], password |-> "secret",
                   method |-> "Aes256Gcm", plugin |-> None]>>,
     forward |-> Some([host |-> "example.com", port |-> 80]),
     mode |-> "TcpAndUdp", no_delay |-> FALSE, nofile |-> None, ipv6_first |-> FALSE]

(* C7: the invocation with only a server address, a password, a cipher, a  *)
(* bind address and a forward address is read without error into the one-  *)
(* server configuration it describes, passes the checks and reaches the    *)
(* start of the server operation.                                          *)
C7_DiscreteTripleLaunches ==
    (argv = DiscreteTripleArgs /\ pc # "start")
        => /\ exit \notin {"clap_error", "panic"} \/ server_task
           /\ done_reading => config = DiscreteTripleConfig
           /\ pc = "exited" => server_task

(***************************************************************************)
(* C8                                                                      *)
(***************************************************************************)
(* C8 as stated: an invocation with an unparsable configuration source     *)
(* ends, as soon as it is past the reading of its inputs, in an orderly    *)
(* exit with a diagnostic and the usage summary, before the checks and     *)
(* before the run phase.                                                   *)
C8_ParseFailureTakesStartupErrorPath ==
    (ParseFailure(argv) /\ ~StillReading)
        => /\ pc = "exited"
           /\ exit \in {"clap_error", "return"}
           /\ diag # "none"
           /\ usage
           /\ ~checked /\ ~runtime /\ ~server_task /\ ~signal_task

(* C8 amended: an invocation with an unparsable configuration source ends  *)
(* before the checks and before the run phase, with a diagnostic; the      *)
(* usage summary is printed only when the argument parser rejects the      *)
(* value, a failed configuration load returns without it, and a failed     *)
(* `expect` ends the process by a panic.                                   *)
C8_ParseFailureStopsStartup ==
    (ParseFailure(argv) /\ ~StillReading)
        => /\ pc = "exited"
           /\ diag # "none"
           /\ ~done_reading /\ ~checked /\ ~runtime /\ ~server_task /\ ~signal_task
           /\ \/ exit = "clap_error" /\ usage
              \/ exit = "return" /\ diag = "load error" /\ ~usage
              \/ exit = "panic" /\ ~usage

C8_Witness ==
    /\ pc = "exited"
    /\ argv.NOFILE = Some(NotNumStr)
    /\ exit = "panic"
    /\ diag = "an unsigned integer for nofile"

(***************************************************************************)
(* C9                                                                      *)
(***************************************************************************)
(* C9: after the options are read, every field whose override is absent    *)
(* from the command line has its base value (bind address, mode, no_delay, *)
(* ipv6_first, descriptor limit), and the base servers are a prefix of the *)
(* resolved servers.                                                       *)
C9_ResolverFrame ==
    done_reading =>
        /\ argv.LOCAL_ADDR = None => config.local_addr = base.local_addr
        /\ (~argv.UDP_ONLY /\ ~argv.TCP_AND_UDP) => config.mode = base.mode
        /\ ~argv.NO_DELAY => config.no_delay = base.no_delay
        /\ ~argv.IPV6_FIRST => config.ipv6_first = base.ipv6_first
        /\ argv.NOFILE = None => config.nofile = base.nofile
        /\ IsPrefix(base.server, config.server)

C9_Witness ==
    /\ done_reading
    /\ argv.LOCAL_ADDR = None /\ ~argv.NO_DELAY /\ argv.NOFILE = None
    /\ base.local_addr # None /\ base.no_delay /\ base.nofile # None
    /\ base.server # <<>>
    /\ Len(config.server) > Len(base.server)

(***************************************************************************)
(* C10                                                                     *)
(***************************************************************************)
(* C10: the race ends with exactly one of the two outcomes; if the server  *)
(* operation is ready at the deciding poll the process panics with its     *)
(* result, whether or not the signal is ready too; the process ends        *)
(* normally only if the server is pending and the signal is ready.         *)
C10_ServerPolledFirst ==
    RaceEnded =>
        /\ exit \in {"panic", "return"}
        /\ server # "Pending" => (exit = "panic" /\ reported = Some(server))
        /\ exit = "return" => (server = "Pending" /\ signal /\ reported = None)

C10_Witness ==
    RaceEnded /\ signal /\ first = "signal" /\ server # "Pending" /\ exit = "panic"

=============================================================================
